---- MODULE Spec2Model ----
(***************************************************************************)
(* A model of web3scanner's persistence layer: the retry executor          *)
(* (common/retry), the bytes serializer (database/utils/serializers), the  *)
(* addresses table accessor and the transaction wrapper (database).        *)
(*                                                                         *)
(* Three specifications share the module:                                  *)
(*   RetrySpec  one call of retry.Do / retry.Do2, step by step             *)
(*   CodecSpec  BytesSerializer.Value and BytesSerializer.Scan             *)
(*   Spec       the addresses table: StoreAddresses, the queries and       *)
(*              DB.Transaction                                             *)
(*   MigrationSpec  DB.ExecuteSQLMigration over a directory tree           *)
(*   ScannerSpec    Web3Scanner: Start, Stop and Stopped                   *)
(*   NewDBSpec      database.NewDB and the retry.Do call it makes          *)
(*   RetryLiveSpec  RetrySpec with every step of Do eventually taken       *)
(***************************************************************************)
EXTENDS Integers, Sequences, FiniteSets, TLC

VARIABLES
    \* ---- retry.Do ----
    pc,           \* position inside Do: "entry", "check", "op", "sleep", "done"
    fn,           \* the entry point called: "Do" or "Do2"
    maxAttempts,  \* the maxAttempts argument
    i,            \* the loop variable of Do
    ctxErr,       \* what ctx.Err() returns now
    ctxAtEntry,   \* what ctx.Err() returned when Do was called
    opFails,      \* op fails on its first opFails invocations and succeeds on the next
    opLog,        \* outcome of every invocation of op so far, in order
    sleeps,       \* argument of every strategy.Duration call followed by a Sleep
    err,          \* Do's local err
    result,       \* what the call returned, once pc = "done"
    strategy,     \* the strategy argument: an ExponentialStrategy
    slept,        \* the duration of every time.Sleep so far, in order
    cancelAt,     \* where Do stood when its context was cancelled while it ran
    \* ---- BytesSerializer ----
    cpc,          \* "start", "encoded" (Value ran), "loaded" (a stored value was read),
                  \* "roundtrip" (Scan ran on what Value wrote), "scanned" (Scan ran on a stored value)
    fieldType,    \* field.FieldType
    fieldVal,     \* the field's value handed to Value
    dbValue,      \* the storage value: Value's result, or what the driver read
    dst,          \* the destination field Scan writes
    valueErr,     \* Value's error
    scanErr,      \* Scan's error
    \* ---- the addresses table ----
    table,        \* the committed rows of table addresses, in insertion order
    tx,           \* the transaction DB.Transaction has open, if any
    lastCall,     \* the last call made on the store, with what it returned
    history,      \* the records stored so far by calls that succeeded and were committed
    \* ---- DB.ExecuteSQLMigration ----
    mpc,          \* "walk" while filepath.Walk runs, "done" once ExecuteSQLMigration returned
    fsys,         \* the directory tree: what lies at each path under migrationsFolder
    todo,         \* the paths filepath.Walk has still to hand to the callback, in order
    mlog,         \* the file reads and script executions so far, in order
    mfault,       \* whether a file read or a script execution has failed
    migErr,       \* what ExecuteSQLMigration returned
    \* ---- Web3Scanner ----
    stopped,      \* the field stopped (an atomic.Bool)
    scanLog,      \* the calls made on the scanner so far, each with what it returned
    \* ---- database.NewDB ----
    argCtx,       \* what Err() of NewDB's ctx argument returns now
    argCtxAtEntry,\* what it returned when NewDB was called
    newdb         \* what NewDB returned, once it has

retryVars == <<pc, fn, maxAttempts, i, ctxErr, ctxAtEntry, opFails, opLog, sleeps, err, result,
               strategy, slept, cancelAt>>

codecVars == <<cpc, fieldType, fieldVal, dbValue, dst, valueErr, scanErr>>

storeVars == <<table, tx, lastCall, history>>

migVars == <<mpc, fsys, todo, mlog, mfault, migErr>>

scanVars == <<stopped, scanLog>>

newdbVars == <<argCtx, argCtxAtEntry, newdb>>

vars == <<retryVars, codecVars, storeVars, migVars, scanVars, newdbVars>>

\* what a step of one component leaves alone
notRetry == <<codecVars, storeVars, migVars, scanVars, newdbVars>>
notCodec == <<retryVars, storeVars, migVars, scanVars, newdbVars>>
notStore == <<retryVars, codecVars, migVars, scanVars, newdbVars>>
notMig == <<retryVars, codecVars, storeVars, scanVars, newdbVars>>
notScan == <<retryVars, codecVars, migVars, newdbVars>>

(***************************************************************************)
(* Bounds of the model                                                     *)
(***************************************************************************)
MaxAttempts == 3
MaxPtrDepth == 2
MaxBatch == 2
MaxDepth == 2
MaxCalls == 4

(***************************************************************************)
(* common/retry                                                            *)
(***************************************************************************)
NilErr == [kind |-> "nil"]

\* context.Canceled and context.DeadlineExceeded
CtxErrors == {[kind |-> "context", err |-> "Canceled"],
              [kind |-> "context", err |-> "DeadlineExceeded"]}

\* the error the n-th invocation of op returns when it fails
OpError(n) == [kind |-> "op", invocation |-> n]

\* the value the n-th invocation of op returns when it succeeds: a T for Do,
\* the pair[T, U] that Do2's closure f builds for Do2
OpValue(f, n) == IF f = "Do2" THEN [a |-> n, b |-> 0 - n] ELSE n

\* var empty T
Empty(f) == IF f = "Do2" THEN [a |-> 0, b |-> 0] ELSE 0

\* fmt.Errorf("need at least 1 attempt to run op, but have %d max attempts", maxAttempts)
ConfigError(n) == [kind |-> "config", maxAttempts |-> n]

\* &ErrFailedPermanently{attempts: maxAttempts, LastErr: err}
ErrFailedPermanently(n, e) == [kind |-> "ErrFailedPermanently", attempts |-> n, LastErr |-> e]

\* ErrFailedPermanently.Unwrap
Unwrap(e) == e.LastErr

\* What the entry point hands back for Do's (res, err): Do2 splits the pair.
Return(f, res, e) == IF f = "Do2" THEN <<res.a, res.b, e>> ELSE <<res, e>>

\* &retry.ExponentialStrategy{Min: 1000, Max: 20_000, MaxJitter: 250}, in milliseconds
NewDBStrategy == [Min |-> 1000, Max |-> 20000, MaxJitter |-> 250]
\* a strategy that reaches its ceiling at the second attempt
ShortStrategy == [Min |-> 1, Max |-> 2, MaxJitter |-> 1]
NoStrategy == [Min |-> 0, Max |-> 0, MaxJitter |-> 0]
Strategies == {NewDBStrategy, ShortStrategy}

\* ExponentialStrategy.Duration(attempt): min(Max, Min * 2^attempt) plus a
\* random jitter of at most MaxJitter; the values with the least and the
\* greatest jitter
Durations(st, attempt) ==
    LET grown == st.Min * (2 ^ attempt)
        base  == IF grown > st.Max THEN st.Max ELSE grown
    IN {base, base + st.MaxJitter}

\* NewDB has not returned
NotReturned == [returned |-> FALSE]

\* the context of the call has not been cancelled while Do ran
NotCancelled == [pc |-> "none", i |-> 0]

\* the serializer at rest, for the specifications that do not exercise it
CodecIdle ==
    /\ cpc = "idle"
    /\ fieldType = "none"
    /\ fieldVal = "none"
    /\ dbValue = "none"
    /\ dst = "none"
    /\ valueErr = "nil"
    /\ scanErr = "nil"

\* the retry executor at rest, for the specifications that do not exercise it
RetryIdle ==
    /\ pc = "idle"
    /\ fn = "none"
    /\ maxAttempts = 0
    /\ i = 0
    /\ ctxErr = NilErr
    /\ ctxAtEntry = NilErr
    /\ opFails = 0
    /\ opLog = <<>>
    /\ sleeps = <<>>
    /\ err = NilErr
    /\ result = <<>>
    /\ strategy = NoStrategy
    /\ slept = <<>>
    /\ cancelAt = NotCancelled

\* no transaction open
NoTx == [open |-> FALSE, rows |-> <<>>, writes |-> {}]

\* the store before its first call, on the empty table the migration creates
StoreIdle ==
    /\ table = <<>>
    /\ tx = NoTx
    /\ lastCall = [op |-> "none"]
    /\ history = {}

\* ExecuteSQLMigration at rest, for the specifications that do not exercise it
MigIdle ==
    /\ mpc = "idle"
    /\ fsys = <<>>
    /\ todo = <<>>
    /\ mlog = <<>>
    /\ mfault = FALSE
    /\ migErr = "nil"

\* a scanner nothing is called on, for the specifications that do not exercise it
ScannerIdle ==
    /\ stopped = FALSE
    /\ scanLog = <<>>

\* NewDB not called, for the specifications that do not exercise it
NewDBIdle ==
    /\ argCtx = NilErr
    /\ argCtxAtEntry = NilErr
    /\ newdb = NotReturned

RetryInit ==
    /\ CodecIdle
    /\ StoreIdle
    /\ MigIdle
    /\ ScannerIdle
    /\ NewDBIdle
    /\ pc = "entry"
    /\ fn \in {"Do", "Do2"}
    /\ maxAttempts \in (0 - 2)..MaxAttempts
    /\ i = 0
    /\ ctxErr \in {NilErr} \cup CtxErrors
    /\ ctxAtEntry = ctxErr
    /\ opFails \in 0..(MaxAttempts + 1)
    /\ opLog = <<>>
    /\ sleeps = <<>>
    /\ err = NilErr
    /\ result = <<>>
    /\ strategy \in Strategies
    /\ slept = <<>>
    /\ cancelAt = NotCancelled

\* DoEntry with the guard written maxAttempts < 0: zero attempts slip through.
DoEntryOffByOne ==
    /\ pc = "entry"
    /\ IF maxAttempts < 0
       THEN /\ result' = Return(fn, Empty(fn), ConfigError(maxAttempts))
            /\ pc' = "done"
       ELSE /\ pc' = "check"
            /\ UNCHANGED result
    /\ UNCHANGED <<fn, maxAttempts, i, ctxErr, ctxAtEntry, strategy, cancelAt, opFails, opLog, sleeps, slept, err>>
    /\ UNCHANGED notRetry

\* if maxAttempts < 1 { return empty, fmt.Errorf(...) }; i := 0
DoEntry ==
    /\ pc = "entry"
    /\ IF maxAttempts < 1
       THEN /\ result' = Return(fn, Empty(fn), ConfigError(maxAttempts))
            /\ pc' = "done"
       ELSE /\ pc' = "check"
            /\ UNCHANGED result
    /\ UNCHANGED <<fn, maxAttempts, i, ctxErr, ctxAtEntry, strategy, cancelAt, opFails, opLog, sleeps, slept, err>>
    /\ UNCHANGED notRetry

\* DoCheck that looks at the context only from the second attempt on.
DoCheckSkipsFirst ==
    /\ pc = "check"
    /\ IF i < maxAttempts
       THEN IF ctxErr # NilErr /\ i > 0
            THEN /\ result' = Return(fn, Empty(fn), ctxErr)
                 /\ pc' = "done"
            ELSE /\ pc' = "op"
                 /\ UNCHANGED result
       ELSE /\ result' = Return(fn, Empty(fn), ErrFailedPermanently(maxAttempts, err))
            /\ pc' = "done"
    /\ UNCHANGED <<fn, maxAttempts, i, ctxErr, ctxAtEntry, strategy, cancelAt, opFails, opLog, sleeps, slept, err>>
    /\ UNCHANGED notRetry

\* DoCheck with the loop condition written i <= maxAttempts.
DoCheckOneMore ==
    /\ pc = "check"
    /\ IF i <= maxAttempts
       THEN IF ctxErr # NilErr
            THEN /\ result' = Return(fn, Empty(fn), ctxErr)
                 /\ pc' = "done"
            ELSE /\ pc' = "op"
                 /\ UNCHANGED result
       ELSE /\ result' = Return(fn, Empty(fn), ErrFailedPermanently(maxAttempts, err))
            /\ pc' = "done"
    /\ UNCHANGED <<fn, maxAttempts, i, ctxErr, ctxAtEntry, strategy, cancelAt, opFails, opLog, sleeps, slept, err>>
    /\ UNCHANGED notRetry

\* the loop condition i < maxAttempts, then if ctx.Err() != nil { return empty, ctx.Err() }
DoCheck ==
    /\ pc = "check"
    /\ IF i < maxAttempts
       THEN IF ctxErr # NilErr
            THEN /\ result' = Return(fn, Empty(fn), ctxErr)
                 /\ pc' = "done"
            ELSE /\ pc' = "op"
                 /\ UNCHANGED result
       ELSE /\ result' = Return(fn, Empty(fn), ErrFailedPermanently(maxAttempts, err))
            /\ pc' = "done"
    /\ UNCHANGED <<fn, maxAttempts, i, ctxErr, ctxAtEntry, strategy, cancelAt, opFails, opLog, sleeps, slept, err>>
    /\ UNCHANGED notRetry

\* DoOp that sleeps after every failed attempt, the last one included.
DoOpAlwaysSleeps ==
    /\ pc = "op"
    /\ LET n  == Len(opLog) + 1
           ok == n > opFails
       IN /\ opLog' = Append(opLog, ok)
          /\ IF ok
             THEN /\ err' = NilErr
                  /\ result' = Return(fn, OpValue(fn, n), NilErr)
                  /\ pc' = "done"
             ELSE /\ err' = OpError(n)
                  /\ UNCHANGED result
                  /\ pc' = "sleep"
    /\ UNCHANGED <<fn, maxAttempts, i, ctxErr, ctxAtEntry, strategy, cancelAt, opFails, sleeps, slept>>
    /\ UNCHANGED notRetry

\* DoOp that returns Do's zero value instead of op's result on success.
DoOpDropsValue ==
    /\ pc = "op"
    /\ LET n  == Len(opLog) + 1
           ok == n > opFails
       IN /\ opLog' = Append(opLog, ok)
          /\ IF ok
             THEN /\ err' = NilErr
                  /\ result' = Return(fn, Empty(fn), NilErr)
                  /\ pc' = "done"
                  /\ UNCHANGED i
             ELSE /\ err' = OpError(n)
                  /\ UNCHANGED result
                  /\ IF i # maxAttempts - 1
                     THEN pc' = "sleep" /\ UNCHANGED i
                     ELSE pc' = "check" /\ i' = i + 1
    /\ UNCHANGED <<fn, maxAttempts, ctxErr, ctxAtEntry, strategy, cancelAt, opFails, sleeps, slept>>
    /\ UNCHANGED notRetry

\* ret, err = op(); if err == nil { return ret, nil };
\* if i != maxAttempts-1 { sleep } ; i++
DoOp ==
    /\ pc = "op"
    /\ LET n  == Len(opLog) + 1
           ok == n > opFails
       IN /\ opLog' = Append(opLog, ok)
          /\ IF ok
             THEN /\ err' = NilErr
                  /\ result' = Return(fn, OpValue(fn, n), NilErr)
                  /\ pc' = "done"
                  /\ UNCHANGED i
             ELSE /\ err' = OpError(n)
                  /\ UNCHANGED result
                  /\ IF i # maxAttempts - 1
                     THEN pc' = "sleep" /\ UNCHANGED i
                     ELSE pc' = "check" /\ i' = i + 1
    /\ UNCHANGED <<fn, maxAttempts, ctxErr, ctxAtEntry, strategy, cancelAt, opFails, sleeps, slept>>
    /\ UNCHANGED notRetry

\* DoSleep with a sleep that ends at once when the context is cancelled.
DoSleepInterruptible ==
    /\ pc = "sleep"
    /\ sleeps' = Append(sleeps, i)
    /\ IF ctxErr # NilErr
       THEN slept' = Append(slept, 0)
       ELSE \E d \in Durations(strategy, i) : slept' = Append(slept, d)
    /\ i' = i + 1
    /\ pc' = "check"
    /\ UNCHANGED <<fn, maxAttempts, ctxErr, ctxAtEntry, strategy, cancelAt, opFails, opLog, err, result>>
    /\ UNCHANGED notRetry

\* time.Sleep(strategy.Duration(i)); i++
DoSleep ==
    /\ pc = "sleep"
    /\ sleeps' = Append(sleeps, i)
    /\ \E d \in Durations(strategy, i) : slept' = Append(slept, d)
    /\ i' = i + 1
    /\ pc' = "check"
    /\ UNCHANGED <<fn, maxAttempts, ctxErr, ctxAtEntry, strategy, cancelAt, opFails, opLog, err, result>>
    /\ UNCHANGED notRetry

\* The caller's context is cancelled, or passes its deadline, while Do runs.
CtxCancel ==
    /\ pc # "done"
    /\ ctxErr = NilErr
    /\ ctxErr' \in CtxErrors
    /\ cancelAt' = [pc |-> pc, i |-> i]
    /\ UNCHANGED <<pc, fn, maxAttempts, i, ctxAtEntry, strategy, opFails, opLog, sleeps, slept, err, result>>
    /\ UNCHANGED notRetry

RetryNext == DoEntry \/ DoCheck \/ DoOp \/ DoSleep \/ CtxCancel

RetrySpec == RetryInit /\ [][RetryNext]_vars

\* Do is sequential code: the step it stands at is taken, every invocation of
\* op and every sleep returning
DoStep == DoEntry \/ DoCheck \/ DoOp \/ DoSleep
RetryLiveSpec == RetryInit /\ [][RetryNext]_vars /\ WF_vars(DoStep)

(***************************************************************************)
(* Claims about retry.Do                                                   *)
(***************************************************************************)
Returned == pc = "done"
RetErr == result[Len(result)]
NeverCancelled == ctxErr = NilErr
\* the attempt indices 0 .. k-1, in order
Indices(k) == [j \in 1..k |-> j - 1]

\* C1: with maxAttempts = n >= 1, a context that is never cancelled and an op
\* that fails k < n times and then succeeds, Do returns the value of invocation
\* k+1 with a nil error, has invoked op exactly k+1 times and has slept exactly
\* k times (after attempts 0 .. k-1).
C1_SucceedsAfterKFailures ==
    (Returned /\ maxAttempts >= 1 /\ opFails < maxAttempts /\ NeverCancelled)
        => /\ result = Return(fn, OpValue(fn, opFails + 1), NilErr)
           /\ Len(opLog) = opFails + 1
           /\ sleeps = Indices(opFails)

C1_Witness ==
    /\ Returned /\ NeverCancelled /\ fn = "Do"
    /\ maxAttempts = 3 /\ opFails = 2
    /\ result = <<3, NilErr>> /\ Len(sleeps) = 2

\* C2: with maxAttempts = n >= 1, a context that is never cancelled and an op
\* that always fails, Do invokes op exactly n times, sleeps exactly n-1 times
\* (after attempts 0 .. n-2, never after the last), and returns an
\* ErrFailedPermanently with attempts = n whose Unwrap is the n-th error.
C2_ExhaustionWrapsLastError ==
    (Returned /\ maxAttempts >= 1 /\ opFails >= maxAttempts /\ NeverCancelled)
        => /\ Len(opLog) = maxAttempts
           /\ sleeps = Indices(maxAttempts - 1)
           /\ RetErr.kind = "ErrFailedPermanently"
           /\ RetErr.attempts = maxAttempts
           /\ Unwrap(RetErr) = OpError(maxAttempts)
           /\ result = Return(fn, Empty(fn), RetErr)

C2_Witness ==
    /\ Returned /\ NeverCancelled
    /\ maxAttempts = 3 /\ opFails >= 3
    /\ Len(opLog) = 3 /\ Len(sleeps) = 2
    /\ RetErr.kind = "ErrFailedPermanently"

\* C3: with maxAttempts <= 0, whatever the context, Do and Do2 return a
\* configuration error (neither ErrFailedPermanently nor the context's error)
\* as their first step, with no invocation of op and no sleep.
C3_NoAttemptsIsConfigError ==
    (maxAttempts < 1 /\ pc # "entry")
        => /\ Returned
           /\ RetErr = ConfigError(maxAttempts)
           /\ RetErr.kind # "ErrFailedPermanently"
           /\ RetErr \notin CtxErrors
           /\ result = Return(fn, Empty(fn), RetErr)
           /\ opLog = <<>>
           /\ sleeps = <<>>

C3_Witness ==
    /\ Returned /\ fn = "Do2" /\ maxAttempts = 0
    /\ ctxAtEntry \in CtxErrors
    /\ RetErr.kind = "config"

\* C4: with maxAttempts >= 1 and a context already cancelled (or past its
\* deadline) when Do is called, Do returns the context's error, with no
\* invocation of op and no sleep.
C4_CancelledBeforeFirstAttempt ==
    (maxAttempts >= 1 /\ ctxAtEntry # NilErr)
        => /\ opLog = <<>>
           /\ sleeps = <<>>
           /\ pc \in {"entry", "check", "done"}
           /\ Returned => result = Return(fn, Empty(fn), ctxAtEntry)

C4_Witness ==
    /\ Returned /\ maxAttempts = 2 /\ opFails = 0
    /\ ctxAtEntry = [kind |-> "context", err |-> "DeadlineExceeded"]
    /\ RetErr = ctxAtEntry

(***************************************************************************)
(* Text and bytes: hexutil.Encode / hexutil.Decode, common.Address         *)
(* A string is a sequence of one-character strings, a []byte a sequence    *)
(* of numbers in 0..255.                                                   *)
(***************************************************************************)
AddressLength == 20

HexDigits == <<"0", "1", "2", "3", "4", "5", "6", "7", "8", "9", "a", "b", "c", "d", "e", "f">>

\* the value of a hex digit of either case, -1 for any other character
Nibble(c) ==
    CASE c = "0" -> 0 [] c = "1" -> 1 [] c = "2" -> 2 [] c = "3" -> 3 [] c = "4" -> 4
      [] c = "5" -> 5 [] c = "6" -> 6 [] c = "7" -> 7 [] c = "8" -> 8 [] c = "9" -> 9
      [] c \in {"a", "A"} -> 10 [] c \in {"b", "B"} -> 11 [] c \in {"c", "C"} -> 12
      [] c \in {"d", "D"} -> 13 [] c \in {"e", "E"} -> 14 [] c \in {"f", "F"} -> 15
      [] OTHER -> 0 - 1

\* hex.EncodeToString: two lower-case digits per byte
HexOf(b) ==
    [j \in 1..(2 * Len(b)) |->
        IF j % 2 = 1 THEN HexDigits[(b[(j + 1) \div 2] \div 16) + 1]
                     ELSE HexDigits[(b[j \div 2] % 16) + 1]]

\* hexutil.Encode: "0x" and the lower-case hex digits
HexEncode(b) == <<"0", "x">> \o HexOf(b)

Has0xPrefix(str) == Len(str) >= 2 /\ str[1] = "0" /\ str[2] \in {"x", "X"}

\* hexutil.Decode: [err, bytes]; the input must be 0x-prefixed, of even length
\* and made of hex digits (of either case)
HexDecode(str) ==
    IF Len(str) = 0 THEN [err |-> "empty hex string", bytes |-> <<>>]
    ELSE IF ~Has0xPrefix(str) THEN [err |-> "hex string without 0x prefix", bytes |-> <<>>]
    ELSE LET h == SubSeq(str, 3, Len(str)) IN
         IF \E j \in 1..Len(h) : Nibble(h[j]) < 0 THEN [err |-> "invalid hex string", bytes |-> <<>>]
         ELSE IF Len(h) % 2 = 1 THEN [err |-> "hex string of odd length", bytes |-> <<>>]
         ELSE [err |-> "nil",
               bytes |-> [j \in 1..(Len(h) \div 2) |-> 16 * Nibble(h[2 * j - 1]) + Nibble(h[2 * j])]]

\* Address.SetBytes (pointer receiver) on an address holding a: b is cropped from the
\* left to AddressLength bytes and copied to the right end of a
SetBytes(a, b) ==
    LET c == IF Len(b) > AddressLength THEN SubSeq(b, Len(b) - AddressLength + 1, Len(b)) ELSE b
    IN [j \in 1..AddressLength |->
           IF j > AddressLength - Len(c) THEN c[j - (AddressLength - Len(c))] ELSE a[j]]

ZeroBytes == [j \in 1..AddressLength |-> 0]

\* common.HexToAddress for a string of hex digits: the optional 0x / 0X prefix
\* is dropped, an odd number of digits is padded with a leading 0, and the
\* bytes are set on a zero address
HexToAddress(str) ==
    LET h == IF Has0xPrefix(str) THEN SubSeq(str, 3, Len(str)) ELSE str
        e == IF Len(h) % 2 = 1 THEN <<"0">> \o h ELSE h
        b == [j \in 1..(Len(e) \div 2) |-> 16 * Nibble(e[2 * j - 1]) + Nibble(e[2 * j])]
    IN SetBytes(ZeroBytes, b)

\* the address Web3Scanner.Start stores, as written in the source
StartAddressText == <<"0", "x", "0", "f", "a", "0", "9", "C", "3", "A", "3", "2", "8", "7", "9", "2", "2", "5", "3", "f", "8", "d", "e", "e", "7", "1", "1", "6", "8", "4", "8", "7", "2", "3", "b", "7", "2", "a", "6", "d", "2", "e">>
\* the same address written in lower case, and in upper case
StartAddressLower == <<"0", "x", "0", "f", "a", "0", "9", "c", "3", "a", "3", "2", "8", "7", "9", "2", "2", "5", "3", "f", "8", "d", "e", "e", "7", "1", "1", "6", "8", "4", "8", "7", "2", "3", "b", "7", "2", "a", "6", "d", "2", "e">>
StartAddressUpper == <<"0", "X", "0", "F", "A", "0", "9", "C", "3", "A", "3", "2", "8", "7", "9", "2", "2", "5", "3", "F", "8", "D", "E", "E", "7", "1", "1", "6", "8", "4", "8", "7", "2", "3", "B", "7", "2", "A", "6", "D", "2", "E">>
\* two more addresses, written short
ShortAddressText == <<"0", "x", "A", "b", "C">>
ShortAddressLower == <<"a", "b", "c">>
OtherAddressText == <<"0", "x", "f", "F", "0", "0", "0", "1">>

AddressTexts == {StartAddressText, StartAddressLower, StartAddressUpper,
                 ShortAddressText, ShortAddressLower, OtherAddressText}

\* the addresses the model works with: what the texts above parse to
Addrs == {HexToAddress(t) : t \in AddressTexts}

(***************************************************************************)
(* Go types and values as package reflect shows them                       *)
(* A type is a base type under ptr levels of pointer. The base types are   *)
(* common.Address (Bytes() on the value receiver, SetBytes() on the        *)
(* pointer receiver) and []byte (neither method).                          *)
(***************************************************************************)
AddressT == [ptr |-> 0, base |-> "Address"]
BytesT == [ptr |-> 0, base |-> "[]byte"]
PtrTo(T) == [ptr |-> T.ptr + 1, base |-> T.base]
\* Type.Elem of a pointer type
ElemType(T) == [ptr |-> T.ptr - 1, base |-> T.base]
\* Type.Kind
Kind(T) == IF T.ptr > 0 THEN "Pointer" ELSE IF T.base = "Address" THEN "Array" ELSE "Slice"

\* the zero Value, which Value.Elem returns for a nil pointer
Invalid == [invalid |-> TRUE]
\* a nil interface value
GoNil == [untypedNil |-> TRUE]

\* the zero value of a type: a nil pointer, the zero address, a nil slice
Zero(T) ==
    IF T.ptr > 0 THEN [t |-> T, isNil |-> TRUE]
    ELSE IF T.base = "Address" THEN [t |-> T, bytes |-> ZeroBytes]
    ELSE [t |-> T, bytes |-> <<>>]

\* a non-nil pointer to v
Ptr(v) == [t |-> PtrTo(v.t), isNil |-> FALSE, elem |-> v]
\* reflect.New(T): a pointer to a fresh zero T
New(T) == Ptr(Zero(T))
\* Value.Kind
ValueKind(v) == IF v = Invalid THEN "Invalid" ELSE Kind(v.t)
\* Value.Elem of a pointer: the zero Value if the pointer is nil
Elem(v) == IF v.isNil THEN Invalid ELSE v.elem
\* Value.IsNil
IsNil(v) == v.isNil

\* the method sets: v.(SetBytesInterface) and v.(BytesInterface) for a v of type T
ImplementsSetBytes(T) == T.base = "Address" /\ T.ptr = 1
ImplementsBytes(T) == T.base = "Address" /\ T.ptr <= 1

\* Address.Bytes() on an Address or, through the pointer, on a *Address
BytesOf(v) == IF v.t.ptr = 0 THEN v.bytes ELSE v.elem.bytes

(***************************************************************************)
(* BytesSerializer                                                         *)
(***************************************************************************)
\* storage values as the driver hands them over
Null == [kind |-> "null"]
StringValue(str) == [kind |-> "string", s |-> str]
IntValue(n) == [kind |-> "int64", n |-> n]

NoError == "nil"
ErrNotString == "expected hex string as the database value"
ErrDecode == "failed to decode database value"
ErrDoublePointer == "double pointers are the max depth supported"
ErrNoSetBytes == "field does not satisfy the SetBytes interface"
ErrNoBytes == "field does not satisfy the Bytes interface"

\* the tail of Scan, after the decoding: b are the decoded bytes
ScanInto(FT, d, b) ==
    LET fieldValue == New(FT)
    IN IF Kind(FT) = "Pointer"
       THEN LET nestedField == Elem(fieldValue)
            IN IF ValueKind(Elem(nestedField)) = "Pointer"
               THEN [err |-> ErrDoublePointer, dst |-> d]
               ELSE \* nestedField.Set(reflect.New(field.FieldType.Elem()))
                    LET pointee == New(ElemType(FT))
                    IN IF ~ImplementsSetBytes(pointee.t)
                       THEN [err |-> ErrNoSetBytes, dst |-> d]
                       ELSE [err |-> NoError,
                             dst |-> [pointee EXCEPT !.elem.bytes = SetBytes(@, b)]]
       ELSE IF ~ImplementsSetBytes(fieldValue.t)
            THEN [err |-> ErrNoSetBytes, dst |-> d]
            ELSE [err |-> NoError,
                  dst |-> Elem([fieldValue EXCEPT !.elem.bytes = SetBytes(@, b)])]

\* BytesSerializer.Scan(ctx, field, dst, dbValue): [err, dst], dst being the
\* destination field after the call
Scan(FT, d, dbv) ==
    IF dbv = Null THEN [err |-> NoError, dst |-> d]
    ELSE IF dbv.kind # "string" THEN [err |-> ErrNotString, dst |-> d]
    ELSE LET dec == HexDecode(dbv.s)
         IN IF dec.err # "nil" THEN [err |-> ErrDecode, dst |-> d]
            ELSE ScanInto(FT, d, dec.bytes)

\* Value that writes the hex digits without the 0x prefix
ValueWithoutPrefix(FT, fv) ==
    IF fv = GoNil \/ (Kind(FT) = "Pointer" /\ IsNil(fv))
    THEN [val |-> Null, err |-> NoError]
    ELSE IF ~ImplementsBytes(fv.t) THEN [val |-> Null, err |-> ErrNoBytes]
    ELSE [val |-> StringValue(HexOf(BytesOf(fv))), err |-> NoError]

\* BytesSerializer.Value(ctx, field, dst, fieldValue): [val, err]
Value(FT, fv) ==
    IF fv = GoNil \/ (Kind(FT) = "Pointer" /\ IsNil(fv))
    THEN [val |-> Null, err |-> NoError]
    ELSE IF ~ImplementsBytes(fv.t) THEN [val |-> Null, err |-> ErrNoBytes]
    ELSE [val |-> StringValue(HexEncode(BytesOf(fv))), err |-> NoError]

\* the field types the serializer is exercised with: Address and []byte under
\* 0 .. MaxPtrDepth levels of pointer
FieldTypes == {[ptr |-> d, base |-> b] : d \in 0..MaxPtrDepth, b \in {"Address", "[]byte"}}

\* the values of a type: for a pointer type the nil pointer and the pointers
\* to the values of its element type
RECURSIVE ValuesOf(_)
ValuesOf(T) ==
    IF T.ptr > 0 THEN {Zero(T)} \cup {Ptr(v) : v \in ValuesOf(ElemType(T))}
    ELSE IF T.base = "Address" THEN {[t |-> T, bytes |-> a] : a \in Addrs \cup {ZeroBytes}}
    ELSE {[t |-> T, bytes |-> <<>>], [t |-> T, bytes |-> <<1, 2>>]}

\* what a row of the table may hold in the column, whoever wrote it
StoredValues ==
    {Null, IntValue(7)}
        \cup {StringValue(HexEncode(a)) : a \in Addrs}
        \cup {StringValue(str) : str \in {StartAddressText, StartAddressUpper, StartAddressLower,
                                         <<>>, <<"a", "b">>, <<"0", "x", "1">>,
                                         <<"0", "x", "z", "z">>, <<"0", "x", "0", "a", "b", "c">>,
                                         <<"0", "x", "0", "1">> \o HexOf(HexToAddress(OtherAddressText))}}

CodecInit ==
    /\ RetryIdle
    /\ StoreIdle
    /\ MigIdle
    /\ ScannerIdle
    /\ NewDBIdle
    /\ cpc = "start"
    /\ fieldType \in FieldTypes
    /\ fieldVal \in ValuesOf(fieldType) \cup {GoNil}
    /\ dbValue = Null
    /\ dst = Zero(fieldType)
    /\ valueErr = NoError
    /\ scanErr = NoError

\* gorm writes the field: the column gets BytesSerializer.Value's result
CallValue ==
    /\ cpc = "start"
    /\ LET r == Value(fieldType, fieldVal)
       IN /\ dbValue' = r.val
          /\ valueErr' = r.err
    /\ cpc' = "encoded"
    /\ UNCHANGED <<fieldType, fieldVal, dst, scanErr>>
    /\ UNCHANGED notCodec

\* gorm reads a row that something else wrote
LoadStored ==
    /\ cpc = "start"
    /\ dbValue' \in StoredValues
    /\ cpc' = "loaded"
    /\ UNCHANGED <<fieldType, fieldVal, dst, valueErr, scanErr>>
    /\ UNCHANGED notCodec

\* gorm reads the column into the field with BytesSerializer.Scan
CallScan ==
    /\ cpc \in {"encoded", "loaded"}
    /\ valueErr = NoError
    /\ LET r == Scan(fieldType, dst, dbValue)
       IN /\ dst' = r.dst
          /\ scanErr' = r.err
    /\ cpc' = IF cpc = "encoded" THEN "roundtrip" ELSE "scanned"
    /\ UNCHANGED <<fieldType, fieldVal, dbValue, valueErr>>
    /\ UNCHANGED notCodec

CodecNext == CallValue \/ LoadStored \/ CallScan

CodecSpec == CodecInit /\ [][CodecNext]_vars

(***************************************************************************)
(* Claims about the serializer                                             *)
(***************************************************************************)
\* the field holds a 20-byte address: an Address, or a non-nil *Address
HoldsAddress ==
    /\ fieldVal # GoNil
    /\ fieldType.base = "Address"
    /\ \/ fieldType.ptr = 0
       \/ fieldType.ptr = 1 /\ ~fieldVal.isNil
HoldsNil == fieldVal = GoNil \/ (fieldType.ptr > 0 /\ fieldVal.isNil)

\* C5: Scan of Value(v) stores a value equal to v in the destination with no
\* error, for every 20-byte address v; Value of a nil value or nil pointer
\* yields a nil storage value with no error; Scan of a nil storage value
\* returns no error and leaves the destination at its zero value.
C5_RoundTrip ==
    /\ (cpc = "roundtrip" /\ HoldsAddress)
          => /\ valueErr = NoError /\ scanErr = NoError
             /\ dbValue.kind = "string"
             /\ dst = fieldVal
             /\ BytesOf(dst) = BytesOf(fieldVal)
    /\ (cpc \in {"encoded", "roundtrip"} /\ HoldsNil)
          => dbValue = Null /\ valueErr = NoError
    /\ (cpc \in {"roundtrip", "scanned"} /\ dbValue = Null)
          => scanErr = NoError /\ dst = Zero(fieldType)

C5_Witness ==
    /\ cpc = "roundtrip" /\ HoldsAddress
    /\ fieldType = PtrTo(AddressT)
    /\ BytesOf(fieldVal) = HexToAddress(StartAddressText)
    /\ dbValue = StringValue(StartAddressLower)
    /\ dst = fieldVal

\* a stored value that is a well-formed hex string
ValidHex(dbv) == dbv.kind = "string" /\ HexDecode(dbv.s).err = "nil"

\* C6: Scan of a valid hex string into a doubly indirected field fails with
\* the 'double pointers' error (not with the SetBytes-interface error and not
\* with success); into a field with one level of pointer it allocates the
\* pointee and sets the bytes on it.
C6_DoublePointerRejected ==
    (cpc \in {"scanned", "roundtrip"} /\ ValidHex(dbValue) /\ fieldType.base = "Address")
        => /\ fieldType.ptr = 2 => scanErr = ErrDoublePointer
           /\ fieldType.ptr = 1 =>
                 /\ scanErr = NoError
                 /\ ~dst.isNil
                 /\ dst.elem.bytes = SetBytes(ZeroBytes, HexDecode(dbValue.s).bytes)

\* What Scan does instead: the nil pointer that reflect.New allocated has no
\* element to look at, so every pointer to a pointer gets as far as the
\* interface test and fails it.
C6_DoublePointerFailsInterfaceTest ==
    (cpc \in {"scanned", "roundtrip"} /\ ValidHex(dbValue) /\ fieldType.base = "Address")
        => /\ fieldType.ptr >= 2 => scanErr = ErrNoSetBytes /\ dst = Zero(fieldType)
           /\ fieldType.ptr = 1 =>
                 /\ scanErr = NoError
                 /\ ~dst.isNil
                 /\ dst.elem.bytes = SetBytes(ZeroBytes, HexDecode(dbValue.s).bytes)
           /\ scanErr # ErrDoublePointer

(***************************************************************************)
(* The addresses table and its accessor                                    *)
(* A record is a database.Addresses reduced to Address and AddressType:    *)
(* the callers take GUID from uuid.New() and Timestamp from time.Now(), so *)
(* the primary key and the timestamp check never reject a row. A row is    *)
(* what the table holds: the address column as BytesSerializer.Value wrote *)
(* it. A statement that violates a constraint inserts nothing and leaves   *)
(* the connection, and a transaction on it, usable.                        *)
(***************************************************************************)
AddressTypes == {0, 1, 2}

\* the addresses the store is exercised with, written in several letter cases
StoreTexts == {StartAddressText, StartAddressLower, StartAddressUpper,
               ShortAddressText, ShortAddressLower}
StoreAddrs == {HexToAddress(t) : t \in StoreTexts}

Records == [Address : StoreAddrs, AddressType : AddressTypes]
Batches == UNION {[1..n -> Records] : n \in 0..MaxBatch}
Range(f) == {f[j] : j \in DOMAIN f}

AddressValue(a) == [t |-> AddressT, bytes |-> a]

\* the row gorm writes for a record: the Address field goes through the serializer
RowOf(rec) ==
    [address |-> Value(AddressT, AddressValue(rec.Address)).val,
     address_type |-> rec.AddressType]

\* the record gorm reads from a row: [err, rec]
ScanRow(row) ==
    LET r == Scan(AddressT, Zero(AddressT), row.address)
    IN [err |-> r.err, rec |-> [Address |-> r.dst.bytes, AddressType |-> row.address_type]]

ErrUnique == "duplicate key value violates unique constraint addresses_address_key"
ErrNotNull == "null value in column address violates not-null constraint"
ErrRecordNotFound == "record not found"
ErrDriver == "driver: bad connection"
NoRecord == [nil |-> TRUE]

\* an INSERT that checks the new rows against the stored ones only
InsertRowsNoBatchCheck(rows, new) ==
    IF \E j \in 1..Len(new) : new[j].address = Null
    THEN [err |-> ErrNotNull, rows |-> rows]
    ELSE IF \E j \in 1..Len(new), k \in 1..Len(rows) : new[j].address = rows[k].address
    THEN [err |-> ErrUnique, rows |-> rows]
    ELSE [err |-> NoError, rows |-> rows \o new]

\* one INSERT statement under the table's constraints (address VARCHAR UNIQUE
\* NOT NULL): all the rows are inserted, or none and the statement fails
InsertRows(rows, new) ==
    IF \E j \in 1..Len(new) : new[j].address = Null
    THEN [err |-> ErrNotNull, rows |-> rows]
    ELSE IF \/ \E j \in 1..Len(new), k \in 1..Len(rows) : new[j].address = rows[k].address
            \/ \E j, k \in 1..Len(new) : j < k /\ new[j].address = new[k].address
    THEN [err |-> ErrUnique, rows |-> rows]
    ELSE [err |-> NoError, rows |-> rows \o new]

\* CreateInBatches that issues the statement again when it fails
CreateInBatchesRetrying(rows, new) ==
    IF Len(new) = 0 THEN [err |-> NoError, rows |-> rows, statements |-> 0]
    ELSE LET r == InsertRows(rows, new)
         IN IF r.err = NoError THEN [err |-> r.err, rows |-> r.rows, statements |-> 1]
            ELSE [err |-> r.err, rows |-> r.rows, statements |-> 2]

\* gorm's CreateInBatches(&addressList, len(addressList)) with
\* SkipDefaultTransaction, new being the rows of the list: one INSERT for the
\* whole list, none for an empty list: [err, rows, statements]
CreateInBatches(rows, new) ==
    IF Len(new) = 0 THEN [err |-> NoError, rows |-> rows, statements |-> 0]
    ELSE LET r == InsertRows(rows, new)
         IN [err |-> r.err, rows |-> r.rows, statements |-> 1]

\* the rows the connection in use sees: inside Transaction's fn, the transaction's
View == IF tx.open THEN tx.rows ELSE table

\* Where(column, value).Take(&addressEntry) and
\* Where(column, value).First(&addressEntry): the possible [err, rec]. Among several matching rows the engine is free to
\* return any (First orders by guid, which is random).
TakeOne(rows, column, value, fault) ==
    IF fault THEN {[err |-> ErrDriver, rec |-> NoRecord]}
    ELSE LET hits == {j \in 1..Len(rows) : rows[j][column] = value}
         IN IF hits = {} THEN {[err |-> ErrRecordNotFound, rec |-> NoRecord]}
            ELSE {LET sc == ScanRow(rows[j])
                  IN [err |-> sc.err, rec |-> IF sc.err = NoError THEN sc.rec ELSE NoRecord]
                  : j \in hits}

ToUpperChar(c) ==
    CASE c = "a" -> "A" [] c = "b" -> "B" [] c = "c" -> "C" [] c = "d" -> "D"
      [] c = "e" -> "E" [] c = "f" -> "F" [] OTHER -> c
ToLowerChar(c) ==
    CASE c = "A" -> "a" [] c = "B" -> "b" [] c = "C" -> "c" [] c = "D" -> "d"
      [] c = "E" -> "e" [] c = "F" -> "f" [] c = "X" -> "x" [] OTHER -> c
\* strings.ToLower
ToLower(str) == [j \in 1..Len(str) |-> ToLowerChar(str[j])]

\* address.String(): the EIP-55 form, 0x and the hex digits with the letters
\* at some positions in upper case. The positions come from a hash of the
\* digits; mask stands for them.
ChecksumHex(a, mask) ==
    LET h == HexOf(a)
    IN <<"0", "x">> \o [j \in 1..Len(h) |-> IF j \in mask THEN ToUpperChar(h[j]) ELSE h[j]]
CaseMasks == {{}, 1..(2 * AddressLength), {j \in 1..(2 * AddressLength) : j % 3 = 0}}

\* the key looked up, without the lower-casing
LookupKeyAsWritten(a, mask) == ChecksumHex(a, mask)

\* strings.ToLower(address.String())
LookupKey(a, mask) == ToLower(ChecksumHex(a, mask))

StoreInit ==
    /\ RetryIdle
    /\ CodecIdle
    /\ StoreIdle
    /\ MigIdle
    /\ ScannerIdle
    /\ NewDBIdle

\* the records the connection in use sees as stored: those committed and,
\* inside Transaction's fn, those the transaction has written
Visible == IF tx.open THEN history \cup tx.writes ELSE history

\* the batch holds an address that is already stored, or the same address twice
HasDuplicate(stored, batch) ==
    \/ \E j \in 1..Len(batch) : \E rec \in stored : rec.Address = batch[j].Address
    \/ \E j, k \in 1..Len(batch) : j < k /\ batch[j].Address = batch[k].Address

\* what lastCall keeps of a StoreAddresses call: the size of the batch and
\* whether it had a duplicate, the error returned, the statements issued and
\* whether the rows changed
StoreCall(batch, rows, r) ==
    [op |-> "StoreAddresses", size |-> Len(batch), dup |-> HasDuplicate(Visible, batch),
     err |-> r.err, statements |-> r.statements, changed |-> r.rows # rows]

\* db.Addresses.StoreAddresses(addressList), outside a transaction
StoreAddresses ==
    /\ ~tx.open
    /\ LET row == [rec \in Records |-> RowOf(rec)]
       IN \E batch \in Batches :
          LET r == CreateInBatches(table, [j \in 1..Len(batch) |-> row[batch[j]]])
          IN /\ table' = r.rows
             /\ lastCall' = StoreCall(batch, table, r)
             /\ history' = IF r.err = NoError THEN history \cup Range(batch) ELSE history
    /\ UNCHANGED tx
    /\ UNCHANGED notStore

\* AddressExist(address)
AddressExist ==
    /\ \E a \in StoreAddrs, mask \in CaseMasks :
          LET key == StringValue(LookupKey(a, mask))
          IN \E fault \in BOOLEAN : \E r \in TakeOne(View, "address", key, fault) :
             lastCall' = IF r.err # NoError
                         THEN [op |-> "AddressExist", address |-> a, fault |-> fault,
                               found |-> FALSE, addressType |-> 0]
                         ELSE [op |-> "AddressExist", address |-> a, fault |-> fault,
                               found |-> TRUE, addressType |-> r.rec.AddressType]
    /\ UNCHANGED <<table, tx, history>>
    /\ UNCHANGED notStore

\* the wallet query that reports a missing row as an error
QueryWalletInfoNotFoundIsError(name, type) ==
    /\ \E fault \in BOOLEAN :
          \E r \in TakeOne(View, "address_type", type, fault) :
             lastCall' = IF r.err # NoError
                         THEN [op |-> name, fault |-> fault, rec |-> NoRecord, err |-> r.err]
                         ELSE [op |-> name, fault |-> fault, rec |-> r.rec, err |-> NoError]
    /\ UNCHANGED <<table, tx, history>>
    /\ UNCHANGED notStore

\* the body QueryHotWalletInfo and QueryColdWalletInfo share, for address_type = type
QueryWalletInfo(name, type) ==
    /\ \E fault \in BOOLEAN :
          \E r \in TakeOne(View, "address_type", type, fault) :
             lastCall' = IF r.err # NoError
                         THEN IF r.err = ErrRecordNotFound
                              THEN [op |-> name, fault |-> fault, rec |-> NoRecord, err |-> NoError]
                              ELSE [op |-> name, fault |-> fault, rec |-> NoRecord, err |-> r.err]
                         ELSE [op |-> name, fault |-> fault, rec |-> r.rec, err |-> NoError]
    /\ UNCHANGED <<table, tx, history>>
    /\ UNCHANGED notStore

QueryHotWalletInfo == QueryWalletInfo("QueryHotWalletInfo", 1)

QueryColdWalletInfo == QueryWalletInfo("QueryColdWalletInfo", 2)

(***************************************************************************)
(* DB.Transaction(fn): gorm begins a transaction and calls fn with a DB    *)
(* bound to it; fn's calls are the steps between TxBegin and TxReturn.     *)
(***************************************************************************)
FnOutcomes == {[kind |-> "nil"], [kind |-> "error", msg |-> "fn failed"],
               [kind |-> "panic", value |-> "fn panicked"]}

\* db.gorm.Transaction begins; txDB := &DB{gorm: tx, Addresses: NewAddressesDB(tx)}
TxBegin ==
    /\ ~tx.open
    /\ tx' = [open |-> TRUE, rows |-> table, writes |-> {}]
    /\ lastCall' = [op |-> "Begin"]
    /\ UNCHANGED <<table, history>>
    /\ UNCHANGED notStore

\* fn calls txDB.Addresses.StoreAddresses(addressList)
TxStoreAddresses ==
    /\ tx.open
    /\ LET row == [rec \in Records |-> RowOf(rec)]
       IN \E batch \in Batches :
          LET r == CreateInBatches(tx.rows, [j \in 1..Len(batch) |-> row[batch[j]]])
          IN /\ tx' = [tx EXCEPT !.rows = r.rows,
                                 !.writes = IF r.err = NoError THEN @ \cup Range(batch) ELSE @]
             /\ lastCall' = StoreCall(batch, tx.rows, r)
    /\ UNCHANGED <<table, history>>
    /\ UNCHANGED notStore

\* Transaction that commits whatever fn returns
TxReturnAlwaysCommits ==
    /\ tx.open
    /\ \E out \in FnOutcomes :
          /\ table' = tx.rows
          /\ history' = history \cup tx.writes
          /\ lastCall' = [op |-> "Transaction", fn |-> out, before |-> table,
                          writes |-> tx.writes,
                          err |-> IF out.kind = "error" THEN out.msg ELSE NoError,
                          panic |-> IF out.kind = "panic" THEN out.value ELSE "none"]
    /\ tx' = NoTx
    /\ UNCHANGED notStore

\* fn returns or panics: gorm commits on nil and rolls back otherwise, and
\* Transaction returns fn's error, or lets the panic through
TxReturn ==
    /\ tx.open
    /\ \E out \in FnOutcomes :
          /\ table' = IF out.kind = "nil" THEN tx.rows ELSE table
          /\ history' = IF out.kind = "nil" THEN history \cup tx.writes ELSE history
          /\ lastCall' = [op |-> "Transaction", fn |-> out, before |-> table,
                          writes |-> tx.writes,
                          err |-> IF out.kind = "error" THEN out.msg ELSE NoError,
                          panic |-> IF out.kind = "panic" THEN out.value ELSE "none"]
    /\ tx' = NoTx
    /\ UNCHANGED notStore

Next ==
    \/ StoreAddresses
    \/ AddressExist
    \/ QueryHotWalletInfo
    \/ QueryColdWalletInfo
    \/ TxBegin
    \/ TxStoreAddresses
    \/ TxReturn

Spec == StoreInit /\ [][Next]_vars

(***************************************************************************)
(* Claims about the addresses table                                        *)
(***************************************************************************)
\* the records GetAllAddresses-style reading finds in rows
Decoded(rows) == {ScanRow(rows[j]).rec : j \in 1..Len(rows)}
\* no two rows of rows hold the same address, as text or as bytes
DistinctAddresses(rows) ==
    \A j, k \in 1..Len(rows) :
        j < k => /\ rows[j].address # rows[k].address
                 /\ ScanRow(rows[j]).rec.Address # ScanRow(rows[k]).rec.Address

\* C7: the stored addresses are pairwise distinct after any sequence of
\* StoreAddresses calls; a call whose batch holds an address already stored,
\* or the same address twice, fails with the engine's uniqueness violation,
\* returned as it is, after exactly one INSERT statement, and stores nothing.
C7_DuplicateAddressRejected ==
    /\ DistinctAddresses(table)
    /\ DistinctAddresses(View)
    /\ (lastCall.op = "StoreAddresses" /\ lastCall.dup)
          => /\ lastCall.err = ErrUnique
             /\ lastCall.statements = 1
             /\ ~lastCall.changed

C7_Witness ==
    /\ lastCall.op = "StoreAddresses" /\ lastCall.dup /\ lastCall.size = 1
    /\ ~tx.open /\ Len(table) = 1
    /\ lastCall.err = ErrUnique

\* the records visible to the caller that hold address a
StoredAs(a) == {rec \in Visible : rec.Address = a}

WalletType(name) == IF name = "QueryHotWalletInfo" THEN 1 ELSE 2

RowsOfType(rows, type) == {j \in 1..Len(rows) : rows[j].address_type = type}

\* C12: in every state reachable by StoreAddresses calls, at most one stored
\* record has classification 1 (hot wallet) and at most one has
\* classification 2 (cold wallet).
C12_AtMostOneHotAndOneCold ==
    /\ Cardinality(RowsOfType(table, 1)) <= 1
    /\ Cardinality(RowsOfType(table, 2)) <= 1

\* What the code does: the classification of a row never makes an INSERT
\* fail; a batch of distinct addresses not yet stored is stored whole,
\* whatever the classifications.
C12_ClassificationUnconstrained ==
    (lastCall.op = "StoreAddresses" /\ ~lastCall.dup) => lastCall.err = NoError

(***************************************************************************)
(* DB.ExecuteSQLMigration                                                  *)
(* A path is the sequence of the file names that lead from                 *)
(* migrationsFolder to an entry, <<>> being migrationsFolder itself. What  *)
(* lies at a path is a node: a regular file, a directory with its entries, *)
(* a symbolic link to a regular file that lies outside migrationsFolder,   *)
(* or nothing.                                                             *)
(***************************************************************************)
NameA == <<"a">>
NameSub == <<"s">>
NameDots == <<"v", ".", ".", "2">>
FileNames == {NameA, NameSub, NameDots}

Absent == [kind |-> "absent"]
RegularFile == [kind |-> "file"]
SymlinkOut == [kind |-> "symlink"]
Dir(entries) == [kind |-> "dir", entries |-> entries]

\* the directories of at most depth levels
RECURSIVE Dirs(_)
Dirs(depth) ==
    {Dir([n \in FileNames |-> IF n = NameA THEN x ELSE IF n = NameDots THEN y ELSE z]) :
        x \in {Absent, RegularFile, SymlinkOut},
        y \in {Absent, RegularFile},
        z \in {Absent, RegularFile} \cup (IF depth > 1 THEN Dirs(depth - 1) ELSE {})}

\* what migrationsFolder may be: a directory, a regular file, or missing
Roots == Dirs(MaxDepth) \cup {RegularFile, Absent}

\* the byte of a character
CharCode(c) ==
    CASE c = "." -> 46 [] c = "/" -> 47 [] c = "2" -> 50
      [] c = "a" -> 97 [] c = "s" -> 115 [] c = "v" -> 118

\* s1 < s2 as Go compares strings
RECURSIVE StrLess(_, _)
StrLess(s1, s2) ==
    IF s2 = <<>> THEN FALSE
    ELSE IF s1 = <<>> THEN TRUE
    ELSE IF Head(s1) = Head(s2) THEN StrLess(Tail(s1), Tail(s2))
    ELSE CharCode(Head(s1)) < CharCode(Head(s2))

\* readDirNames: the names of a directory's entries, sorted
RECURSIVE SortNames(_)
SortNames(S) ==
    IF S = {} THEN <<>>
    ELSE LET least == CHOOSE n \in S : \A o \in S \ {n} : StrLess(n, o)
         IN <<least>> \o SortNames(S \ {least})
ReadDirNames(node) == SortNames({n \in FileNames : node.entries[n] # Absent})

\* os.Lstat: the node at path under node
RECURSIVE Lstat(_, _)
Lstat(node, path) ==
    IF path = <<>> THEN node
    ELSE IF node.kind # "dir" THEN Absent
    ELSE Lstat(node.entries[Head(path)], Tail(path))

\* the paths filepath.Walk hands to its callback below path, in order: the
\* entry itself, then, for a directory, what lies under each of its names
RECURSIVE WalkOrder(_, _)
RECURSIVE WalkNames(_, _, _)
WalkNames(node, path, names) ==
    IF names = <<>> THEN <<>>
    ELSE WalkOrder(node.entries[Head(names)], Append(path, Head(names)))
            \o WalkNames(node, path, Tail(names))
WalkOrder(node, path) ==
    IF node.kind # "dir" THEN <<path>>
    ELSE <<path>> \o WalkNames(node, path, ReadDirNames(node))

\* filepath.Rel(migrationsFolder, path) for a path Walk built: the names
\* joined by the separator, "." for migrationsFolder itself
RECURSIVE JoinNames(_)
JoinNames(path) ==
    IF Len(path) = 1 THEN path[1]
    ELSE path[1] \o <<"/">> \o JoinNames(Tail(path))
Rel(path) == IF path = <<>> THEN <<".">> ELSE JoinNames(path)

\* strings.Contains
Contains(str, sub) ==
    \E j \in 1..(Len(str) - Len(sub) + 1) : SubSeq(str, j, j + Len(sub) - 1) = sub

\* the text os.ReadFile returns: the file's two statements, or those of the
\* file outside migrationsFolder that a symbolic link leads to
FileContent(node, path) ==
    IF node.kind = "symlink" THEN <<[outside |-> path, statement |-> 1]>>
    ELSE <<[file |-> path, statement |-> 1], [file |-> path, statement |-> 2]>>

ErrProcess == "Failed to process migration file"
ErrInvalidPath == "invalid migration file path"
ErrRead == "Error reading SQL file"
ErrExec == "Error executing SQL script"

ReadEvent(path) == [op |-> "ReadFile", path |-> path]
ExecEvent(path, content) == [op |-> "Exec", path |-> path, script |-> content]

MigrationInit ==
    /\ RetryIdle
    /\ CodecIdle
    /\ StoreIdle
    /\ ScannerIdle
    /\ NewDBIdle
    /\ mpc = "walk"
    /\ fsys \in Roots
    /\ todo = WalkOrder(fsys, <<>>)
    /\ mlog = <<>>
    /\ mfault = FALSE
    /\ migErr = NoError

\* one call of the callback ExecuteSQLMigration gives to filepath.Walk, on the
\* next path of the walk; a non-nil result ends the walk and is what
\* ExecuteSQLMigration returns
WalkFn ==
    /\ mpc = "walk"
    /\ todo # <<>>
    /\ LET path == Head(todo)
           info == Lstat(fsys, path)
           stop(e) == mpc' = "done" /\ migErr' = e /\ todo' = todo
       IN IF info = Absent
          THEN stop(ErrProcess) /\ UNCHANGED <<mlog, mfault>>
          ELSE IF info.kind = "dir"
          THEN todo' = Tail(todo) /\ UNCHANGED <<mpc, migErr, mlog, mfault>>
          ELSE IF Contains(Rel(path), <<".", ".">>)
          THEN stop(ErrInvalidPath) /\ UNCHANGED <<mlog, mfault>>
          ELSE \E readErr, execErr \in BOOLEAN :
                  IF readErr
                  THEN /\ stop(ErrRead)
                       /\ mlog' = Append(mlog, ReadEvent(path))
                       /\ mfault' = TRUE
                  ELSE IF execErr
                  THEN /\ stop(ErrExec)
                       /\ mlog' = mlog \o <<ReadEvent(path), ExecEvent(path, FileContent(info, path))>>
                       /\ mfault' = TRUE
                  ELSE /\ todo' = Tail(todo)
                       /\ mlog' = mlog \o <<ReadEvent(path), ExecEvent(path, FileContent(info, path))>>
                       /\ UNCHANGED <<mpc, migErr, mfault>>
    /\ UNCHANGED fsys
    /\ UNCHANGED notMig

\* filepath.Walk has visited every path: ExecuteSQLMigration returns nil
WalkReturn ==
    /\ mpc = "walk"
    /\ todo = <<>>
    /\ mpc' = "done"
    /\ migErr' = NoError
    /\ UNCHANGED <<fsys, todo, mlog, mfault>>
    /\ UNCHANGED notMig

MigrationNext == WalkFn \/ WalkReturn

MigrationSpec == MigrationInit /\ [][MigrationNext]_vars

(***************************************************************************)
(* Claims about ExecuteSQLMigration                                        *)
(***************************************************************************)
\* the paths of the walk that hold a node of kind k
PathsOfKind(k) == SelectSeq(WalkOrder(fsys, <<>>), LAMBDA p : Lstat(fsys, p).kind = k)
Events(o) == SelectSeq(mlog, LAMBDA e : e.op = o)
SeqRange(q) == {q[j] : j \in 1..Len(q)}

\* C11: when no file read or script execution fails, ExecuteSQLMigration
\* executes the full content of every regular file under the root exactly
\* once, in the order of the walk, executes nothing for a directory, and
\* rejects a path that resolves outside the root before reading it; no regular
\* file inside the root is rejected or skipped.
C11_ExecutesEveryRegularFile ==
    (mpc = "done" /\ ~mfault /\ fsys # Absent)
        => LET files == PathsOfKind("file")
               links == PathsOfKind("symlink")
           IN /\ \A e \in SeqRange(mlog) : Lstat(fsys, e.path).kind # "dir"
              /\ \A p \in SeqRange(links) : ReadEvent(p) \notin SeqRange(mlog)
              /\ links = <<>>
                    => /\ migErr = NoError
                       /\ Events("Exec") =
                             [j \in 1..Len(files) |->
                                 ExecEvent(files[j], FileContent(RegularFile, files[j]))]

\* What the code does for a regular file whose name holds two dots in a row:
\* it is rejected as an invalid path, never read, and the walk ends there.
C11_DotDotNameRejected ==
    (mpc = "done" /\ ~mfault /\ fsys # Absent)
        => LET hit == {j \in 1..Len(todo) : Contains(Rel(todo[j]), <<".", ".">>)
                                             /\ Lstat(fsys, todo[j]).kind # "dir"}
           IN migErr = (IF todo = <<>> THEN NoError ELSE ErrInvalidPath)
              /\ (todo # <<>> => 1 \in hit /\ ReadEvent(todo[1]) \notin SeqRange(mlog))

(***************************************************************************)
(* Web3Scanner                                                             *)
(* NewWeb3Scanner leaves the field stopped at its zero value. Every call   *)
(* made on the scanner is logged with what it returned.                    *)
(***************************************************************************)
\* the record Start stores
StartRecord == [Address |-> HexToAddress(StartAddressText), AddressType |-> 1]

ErrorCall(name, e) == [op |-> name, err |-> e]
StoppedCall(b) == [op |-> "Stopped", stopped |-> b]

ScannerInit ==
    /\ RetryIdle
    /\ CodecIdle
    /\ StoreIdle
    /\ MigIdle
    /\ NewDBIdle
    /\ stopped = FALSE
    /\ scanLog = <<>>

\* Start(ctx): StoreAddresses of the one record, then GetAllAddresses, which
\* may fail; the error of either is returned
ScannerStart ==
    /\ Len(scanLog) < MaxCalls
    /\ LET r == CreateInBatches(table, <<RowOf(StartRecord)>>)
       IN /\ table' = r.rows
          /\ lastCall' = StoreCall(<<StartRecord>>, table, r)
          /\ history' = IF r.err = NoError THEN history \cup {StartRecord} ELSE history
          /\ IF r.err # NoError
             THEN scanLog' = Append(scanLog, ErrorCall("Start", r.err))
             ELSE \E fault \in BOOLEAN :
                     scanLog' = Append(scanLog, ErrorCall("Start", IF fault THEN ErrDriver ELSE NoError))
    /\ UNCHANGED <<tx, stopped>>
    /\ UNCHANGED notScan

\* Stop(ctx): prints a line and returns nil
ScannerStop ==
    /\ Len(scanLog) < MaxCalls
    /\ scanLog' = Append(scanLog, ErrorCall("Stop", NoError))
    /\ UNCHANGED <<stopped, storeVars>>
    /\ UNCHANGED notScan

\* Stopped(): ws.stopped.Load()
ScannerStopped ==
    /\ Len(scanLog) < MaxCalls
    /\ scanLog' = Append(scanLog, StoppedCall(stopped))
    /\ UNCHANGED <<stopped, storeVars>>
    /\ UNCHANGED notScan

ScannerNext == ScannerStart \/ ScannerStop \/ ScannerStopped

ScannerSpec == ScannerInit /\ [][ScannerNext]_vars

(***************************************************************************)
(* Claims about Web3Scanner                                                *)
(***************************************************************************)
\* Stop has returned before the k-th call
StopReturnedBefore(k) == \E j \in 1..(k - 1) : scanLog[j].op = "Stop"

\* C13: Stopped() returns true if the scanner has been stopped and false
\* otherwise: every call of Stopped() made after Stop has returned returns
\* true, and every call made before any Stop returns false.
C13_StoppedAfterStop ==
    \A k \in 1..Len(scanLog) :
        scanLog[k].op = "Stopped" => (scanLog[k].stopped <=> StopReturnedBefore(k))

\* What the code does: nothing stores into the field stopped, so Stopped()
\* returns false whatever was called before.
C13_StoppedAlwaysFalse ==
    /\ stopped = FALSE
    /\ \A k \in 1..Len(scanLog) : scanLog[k].op = "Stopped" => ~scanLog[k].stopped

(***************************************************************************)
(* Claims about cancellation and termination of Do                         *)
(***************************************************************************)
\* the context was cancelled while Do ran, during the attempt of index i
CancelledDuringAttempt(idx) == cancelAt.pc = "op" /\ cancelAt.i = idx
\* the number of failed attempts behind Do when the cancellation is next
\* looked for, for a cancellation that fell in a failing attempt, in the sleep
\* after it, or between that sleep and the next check
FailedBeforeCheck == IF cancelAt.pc = "check" THEN cancelAt.i ELSE cancelAt.i + 1
\* what Do returns when its context is never cancelled
UncancelledResult ==
    IF opFails < maxAttempts
    THEN Return(fn, OpValue(fn, opFails + 1), NilErr)
    ELSE Return(fn, Empty(fn), ErrFailedPermanently(maxAttempts, OpError(maxAttempts)))

\* C14: the context is looked at once before each attempt and nowhere else.
\* If it is cancelled after k >= 1 failed attempts (during the k-th attempt or
\* the sleep after it) and before attempt k+1 starts, the sleep is made in
\* full, op is invoked exactly k times, and Do returns the context's error,
\* not ErrFailedPermanently; a cancellation during the last attempt is not
\* seen and leaves the result what it is without it.
C14_CancellationSeenAtNextAttempt ==
    (Returned /\ maxAttempts >= 1 /\ cancelAt.pc \in {"op", "sleep", "check"})
        => LET k == FailedBeforeCheck
           IN /\ (k >= 1 /\ k < maxAttempts /\ opFails >= k)
                    => /\ Len(opLog) = k
                       /\ sleeps = Indices(k)
                       /\ Len(slept) = k
                       /\ \A j \in 1..k : slept[j] \in Durations(strategy, j - 1)
                       /\ RetErr = ctxErr
                       /\ RetErr \in CtxErrors
                       /\ result = Return(fn, Empty(fn), ctxErr)
              /\ CancelledDuringAttempt(maxAttempts - 1)
                    => /\ result = UncancelledResult
                       /\ RetErr \notin CtxErrors

\* cancelled during the sleep after the second of three attempts failed
C14_Witness ==
    /\ Returned /\ maxAttempts = 3 /\ opFails >= 2
    /\ cancelAt = [pc |-> "sleep", i |-> 1]
    /\ Len(opLog) = 2 /\ Len(slept) = 2
    /\ RetErr \in CtxErrors

RECURSIVE SumSeq(_)
SumSeq(q) == IF q = <<>> THEN 0 ELSE Head(q) + SumSeq(Tail(q))
\* the longest a strategy's Duration lasts
MaxBackoff(st) == st.Max + st.MaxJitter
AtLeastZero(n) == IF n < 0 THEN 0 ELSE n

\* what Do has done so far is within its bounds
WithinRetryBounds ==
    /\ Len(opLog) <= AtLeastZero(maxAttempts)
    /\ Len(sleeps) <= AtLeastZero(maxAttempts - 1)
    /\ Len(slept) = Len(sleeps)
    /\ \A j \in 1..Len(sleeps) :
          /\ sleeps[j] = j - 1
          /\ opLog[j] = FALSE
          /\ slept[j] \in Durations(strategy, sleeps[j])
          /\ slept[j] <= MaxBackoff(strategy)
    /\ SumSeq(slept) <= AtLeastZero(maxAttempts - 1) * MaxBackoff(strategy)
    /\ SumSeq(slept) <= AtLeastZero(maxAttempts) * MaxBackoff(strategy)

\* C15: every call of Do returns, provided every invocation of op returns;
\* it makes at most maxAttempts invocations and at most maxAttempts - 1
\* sleeps, each of strategy.Duration(i) for the index i of the attempt that
\* just failed, so that the time slept in total is at most maxAttempts times
\* the longest backoff of the strategy (Max + MaxJitter).
C15_TerminatesWithinBounds == <>Returned /\ []WithinRetryBounds

C15_Witness ==
    /\ Returned /\ maxAttempts = 3 /\ strategy = ShortStrategy
    /\ Len(opLog) = 3 /\ sleeps = <<0, 1>>
    /\ slept = <<2, 3>>
    /\ RetErr.kind = "ErrFailedPermanently"

(***************************************************************************)
(* database.NewDB                                                          *)
(* NewDB makes one call of retry.Do, whose steps are the actions of        *)
(* RetrySpec; op is the closure around gorm.Open, which fails on its first *)
(* opFails invocations.                                                    *)
(***************************************************************************)
NewDBAttempts == 10

\* context.Background(): never cancelled, no deadline
Background == NilErr

\* &DB{gorm: gorm, Addresses: NewAddressesDB(gorm)}
DB(gorm) == [gorm |-> gorm, Addresses |-> [gorm |-> gorm]]
NilDB == [nil |-> TRUE]

NewDBResult(db, e) == [returned |-> TRUE, db |-> db, err |-> e]

NewDBInit ==
    /\ CodecIdle
    /\ StoreIdle
    /\ MigIdle
    /\ ScannerIdle
    /\ pc = "idle"
    /\ fn = "none"
    /\ maxAttempts = 0
    /\ i = 0
    /\ ctxErr = NilErr
    /\ ctxAtEntry = NilErr
    /\ opFails \in 0..(NewDBAttempts + 1)
    /\ opLog = <<>>
    /\ sleeps = <<>>
    /\ err = NilErr
    /\ result = <<>>
    /\ strategy = NoStrategy
    /\ slept = <<>>
    /\ cancelAt = NotCancelled
    /\ argCtx \in {NilErr} \cup CtxErrors
    /\ argCtxAtEntry = argCtx
    /\ newdb = NotReturned

\* NewDB that hands its ctx argument to retry.Do
NewDBCallPassesCtx ==
    /\ pc = "idle"
    /\ pc' = "entry"
    /\ fn' = "Do"
    /\ ctxErr' = argCtx
    /\ ctxAtEntry' = argCtx
    /\ maxAttempts' = NewDBAttempts
    /\ strategy' = NewDBStrategy
    /\ UNCHANGED <<i, opFails, opLog, sleeps, err, result, slept, cancelAt>>
    /\ UNCHANGED notRetry

\* retry.Do[*gorm.DB](context.Background(), 10, retryStrategy, func ...)
NewDBCall ==
    /\ pc = "idle"
    /\ pc' = "entry"
    /\ fn' = "Do"
    /\ ctxErr' = Background
    /\ ctxAtEntry' = Background
    /\ maxAttempts' = NewDBAttempts
    /\ strategy' = NewDBStrategy
    /\ UNCHANGED <<i, opFails, opLog, sleeps, err, result, slept, cancelAt>>
    /\ UNCHANGED notRetry

\* if err != nil { return nil, err }; return db, nil
NewDBReturn ==
    /\ pc = "done"
    /\ ~newdb.returned
    /\ newdb' = IF result[2] # NilErr
                THEN NewDBResult(NilDB, result[2])
                ELSE NewDBResult(DB(result[1]), NilErr)
    /\ UNCHANGED <<argCtx, argCtxAtEntry>>
    /\ UNCHANGED <<retryVars, codecVars, storeVars, migVars, scanVars>>

\* the ctx argument of NewDB is cancelled, or passes its deadline, while NewDB runs
ArgCtxCancel ==
    /\ ~newdb.returned
    /\ argCtx = NilErr
    /\ argCtx' \in CtxErrors
    /\ UNCHANGED <<argCtxAtEntry, newdb>>
    /\ UNCHANGED <<retryVars, codecVars, storeVars, migVars, scanVars>>

NewDBNext ==
    NewDBCall \/ DoEntry \/ DoCheck \/ DoOp \/ DoSleep \/ NewDBReturn \/ ArgCtxCancel

NewDBSpec == NewDBInit /\ [][NewDBNext]_vars

====
